---------------------------- MODULE Spec2Model ----------------------------
(***************************************************************************)
(* A model of two parts of Bear:                                           *)
(*   - intercept's LibraryPreloadSession (collect/SessionLibrary.cc): the  *)
(*     environment rewriting done by resolve, supervise and update;        *)
(*   - citnames' Application (citnames/source/Application.cc): the         *)
(*     construction of the arguments and the configuration, and            *)
(*     Command::execute with its transform loop.                           *)
(* Strings that the code takes apart (path lists, paths) are sequences of  *)
(* one-character strings; strings it only copies are TLA+ strings.         *)
(***************************************************************************)
EXTENDS Integers, Sequences, FiniteSets, TLC

VARIABLES
    \* ---- LibraryPreloadSession --------------------------------------
    verbose_,       \* Session field: bool
    execution,      \* the caller's rpc::Execution (resolve's argument)
    resolved,       \* the value resolve returned, or NoValue
    supervised,     \* the sys::Process::Builder supervise returned, or NoValue
    depth,          \* how many exec levels down the process tree we are
    supplied,       \* history: the execution as the caller handed it over
    rootEnv,        \* history: the environment of the top-level execution
    lastOp          \* the operation that acted last

sessVars == <<verbose_, execution, resolved, supervised, depth, supplied,
              rootEnv, lastOp>>

VARIABLES
    \* ---- citnames: Application::command ------------------------------
    flags,          \* the parsed command line (flags::Arguments)
    environment,    \* sys::env::Vars: CC, CXX, FC, each a path or Absent
    loaded,         \* the configuration file's content, or LoadError
    cwd,            \* what sys::path::get_cwd answers: a path or CwdError
    configuration   \* into_configuration's result, or NoValue

cfgVars == <<flags, environment, loaded, cwd, configuration>>

VARIABLES
    \* ---- citnames: into_arguments and Command::execute ----------------
    cmdline,        \* the parsed command line: what as_bool says of --append
    inputExists,    \* whether the event log file exists
    eventLog,       \* the event log: whether it opens, and its records
    outFile,        \* the output file: NoFile, Corrupt or a Database
    content_,       \* configuration_.output.content, the content filter
    arguments_,     \* into_arguments' result: NoValue, ArgError or Arguments
    pc,             \* where the run is
    it,             \* transform's iterator: the index of the next record
    entries,        \* execute's local list of entries
    count,          \* transform's counter
    result,         \* execute's result, or NoValue
    priorRead,      \* history: "no", "ok" or "failed" (from_json)
    toJsonCalls,    \* history: how often to_json was invoked
    origFile        \* history: the output file as the run found it

execVars == <<cmdline, inputExists, eventLog, outFile, content_, arguments_,
              pc, it, entries, count, result, priorRead, toJsonCalls,
              origFile>>

vars == <<sessVars, cfgVars, execVars>>

NoValue == [none |-> TRUE]

-----------------------------------------------------------------------------
(* Bounds *)

\* longest LD_PRELOAD value the caller's environment holds
MaxLen == 3
\* deepest chain of nested executions
MaxDepth == 2
\* longest paths_to_include / paths_to_exclude of the configuration file
MaxPaths == 1
\* longest compilers_to_recognize of the configuration file
MaxWrappers == 2
\* most records in the event log
MaxEvents == 2
\* most entries in the prior database
MaxPrior == 2

-----------------------------------------------------------------------------
(* Strings as sequences of characters *)

RECURSIVE SeqsUpTo(_, _)
SeqsUpTo(S, n) ==
    IF n = 0 THEN {<<>>}
    ELSE LET shorter == SeqsUpTo(S, n - 1)
         IN  shorter \cup {Append(s, c) : s \in shorter, c \in S}

-----------------------------------------------------------------------------
(* LibraryPreloadSession: the reserved environment keys and session fields *)

GLIBC_PRELOAD_KEY == "LD_PRELOAD"
KEY_VERBOSE       == "INTERCEPT_VERBOSE"
KEY_DESTINATION   == "INTERCEPT_REPORT_DESTINATION"
KEY_REPORTER      == "INTERCEPT_REPORT_COMMAND"
OTHER_KEY         == "HOME"

ReservedKeys == {GLIBC_PRELOAD_KEY, KEY_VERBOSE, KEY_DESTINATION, KEY_REPORTER}
EnvKeys      == ReservedKeys \cup {OTHER_KEY}

OS_PATH_SEPARATOR == ":"

\* the session's fields, fixed at construction (LibraryPreloadSession::from)
library_         == <<"l">>
executor_        == <<"w">>
session_locator_ == <<"s">>
TRUE_STRING      == <<"t">>
EMPTY_STRING     == <<>>

\* sys::path::split: the components of a separator-delimited list, empty
\* components dropped
RECURSIVE split(_)
split(s) ==
    IF s = <<>> THEN <<>>
    ELSE LET idx == {i \in 1..Len(s) : s[i] = OS_PATH_SEPARATOR}
         IN  IF idx = {} THEN <<s>>
             ELSE LET i == CHOOSE k \in idx : \A m \in idx : k <= m
                      head == SubSeq(s, 1, i - 1)
                      rest == split(SubSeq(s, i + 1, Len(s)))
                  IN  IF head = <<>> THEN rest ELSE <<head>> \o rest

\* sys::path::join: the components with a separator between neighbours
RECURSIVE join(_)
join(l) ==
    IF l = <<>> THEN <<>>
    ELSE IF Len(l) = 1 THEN l[1]
    ELSE l[1] \o <<OS_PATH_SEPARATOR>> \o join(Tail(l))

RECURSIVE Without(_, _)
Without(l, x) ==
    IF l = <<>> THEN <<>>
    ELSE IF l[1] = x THEN Without(Tail(l), x)
    ELSE <<l[1]>> \o Without(Tail(l), x)

\* Session::keep_front_in_path: path first, then the other entries of paths
keep_front_in_path(path, paths) ==
    join(<<path>> \o Without(split(paths), path))

\* operator[] of std::map and protobuf::Map: the value, default-constructed
\* (and inserted) when the key is absent
Lookup(env, key) == IF key \in DOMAIN env THEN env[key] ELSE EMPTY_STRING

\* env[key] = value
Assign(env, key, value) ==
    [k \in (DOMAIN env) \cup {key} |-> IF k = key THEN value ELSE env[k]]

\* a plausible slip: the reporter key is left out
update_map_no_reporter(env) ==
    LET c1 == IF verbose_ THEN Assign(env, KEY_VERBOSE, TRUE_STRING) ELSE env
        c2 == Assign(c1, KEY_DESTINATION, session_locator_)
    IN  Assign(c2, GLIBC_PRELOAD_KEY,
               keep_front_in_path(library_, Lookup(c2, GLIBC_PRELOAD_KEY)))

\* LibraryPreloadSession::update(const std::map&): works on a copy
update_map(env) ==
    LET c1 == IF verbose_ THEN Assign(env, KEY_VERBOSE, TRUE_STRING) ELSE env
        c2 == Assign(c1, KEY_DESTINATION, session_locator_)
        c3 == Assign(c2, KEY_REPORTER, executor_)
    IN  Assign(c3, GLIBC_PRELOAD_KEY,
               keep_front_in_path(library_, Lookup(c3, GLIBC_PRELOAD_KEY)))

\* a plausible slip: verbose written whatever the session's flag says
update_proto_always_verbose(env) ==
    LET e1 == Assign(env, KEY_VERBOSE, TRUE_STRING)
        e2 == Assign(e1, KEY_DESTINATION, session_locator_)
        e3 == Assign(e2, KEY_REPORTER, executor_)
    IN  Assign(e3, GLIBC_PRELOAD_KEY,
               keep_front_in_path(library_, Lookup(e3, GLIBC_PRELOAD_KEY)))

\* a plausible slip: the library is prepended without removing it first
update_proto_prepend(env) ==
    LET e1 == IF verbose_ THEN Assign(env, KEY_VERBOSE, TRUE_STRING) ELSE env
        e2 == Assign(e1, KEY_DESTINATION, session_locator_)
        e3 == Assign(e2, KEY_REPORTER, executor_)
    IN  Assign(e3, GLIBC_PRELOAD_KEY,
               join(<<library_>> \o split(Lookup(e3, GLIBC_PRELOAD_KEY))))

\* LibraryPreloadSession::update(google::protobuf::Map&): in place
update_proto(env) ==
    LET e1 == IF verbose_ THEN Assign(env, KEY_VERBOSE, TRUE_STRING) ELSE env
        e2 == Assign(e1, KEY_DESTINATION, session_locator_)
        e3 == Assign(e2, KEY_REPORTER, executor_)
    IN  Assign(e3, GLIBC_PRELOAD_KEY,
               keep_front_in_path(library_, Lookup(e3, GLIBC_PRELOAD_KEY)))


-----------------------------------------------------------------------------
(* LibraryPreloadSession: the operations *)

\* flags of the wrapper's command line (report/wrapper/Flags.h)
WR_DESTINATION == "--destination"
WR_VERBOSE     == "--verbose"
WR_EXECUTE     == "--execute"
WR_COMMAND     == "--"

PreloadValues == SeqsUpTo({"l", "a", OS_PATH_SEPARATOR}, MaxLen)

\* the values a caller's environment may hold for each key
ValuesOf(key) ==
    IF key = GLIBC_PRELOAD_KEY THEN PreloadValues
    ELSE IF key = KEY_VERBOSE THEN {TRUE_STRING, <<"f">>}
    ELSE IF key = KEY_DESTINATION THEN {session_locator_, <<"o">>}
    ELSE IF key = KEY_REPORTER THEN {<<"o">>}
    ELSE {<<"h">>}

\* a caller's environment: each key absent, or holding one of its values
Absent == <<"#absent">>

Opt(key) == ValuesOf(key) \cup {Absent}

MkEnv(choice) ==
    [k \in {x \in EnvKeys : choice[x] # Absent} |-> choice[k]]

Executables == {"cc", "ld"}

InitSession ==
    /\ verbose_ \in BOOLEAN
    /\ \E exe \in Executables,
          p \in Opt(GLIBC_PRELOAD_KEY), v \in Opt(KEY_VERBOSE),
          d \in Opt(KEY_DESTINATION), r \in Opt(KEY_REPORTER),
          o \in Opt(OTHER_KEY) :
          execution = [executable  |-> exe,
                       arguments   |-> <<exe, "-c", "a.c">>,
                       working_dir |-> "/proj",
                       environment |->
                           MkEnv([k \in EnvKeys |->
                                    IF k = GLIBC_PRELOAD_KEY THEN p
                                    ELSE IF k = KEY_VERBOSE THEN v
                                    ELSE IF k = KEY_DESTINATION THEN d
                                    ELSE IF k = KEY_REPORTER THEN r
                                    ELSE o])]
    /\ supplied = execution
    /\ rootEnv = execution.environment
    /\ resolved = NoValue
    /\ supervised = NoValue
    /\ depth = 0
    /\ lastOp = "init"
    \* the other parts of the model are idle
    /\ flags = NoValue
    /\ environment = NoValue
    /\ loaded = NoValue
    /\ cwd = NoValue
    /\ configuration = NoValue
    /\ cmdline = NoValue
    /\ inputExists = FALSE
    /\ eventLog = NoValue
    /\ outFile = NoValue
    /\ content_ = NoValue
    /\ arguments_ = NoValue
    /\ pc = "idle"
    /\ it = 1
    /\ entries = <<>>
    /\ count = 0
    /\ result = NoValue
    /\ priorRead = "no"
    /\ toJsonCalls = 0
    /\ origFile = NoValue

\* LibraryPreloadSession::resolve: a copy of the execution, its environment
\* updated in place
Resolve ==
    /\ resolved = NoValue
    /\ LET candidate == execution
       IN  resolved' = [candidate EXCEPT !.environment = update_proto(@)]
    /\ lastOp' = "resolve"
    /\ UNCHANGED <<verbose_, execution, supervised, depth, supplied, rootEnv>>
    /\ UNCHANGED <<cfgVars, execVars>>

\* LibraryPreloadSession::supervise: the wrapper's command line around the
\* execution, with the updated environment
Supervise ==
    /\ supervised = NoValue
    /\ supervised' =
          [program     |-> executor_,
           arguments   |-> <<executor_, WR_DESTINATION, session_locator_>>
                           \o (IF verbose_ THEN <<WR_VERBOSE>> ELSE <<>>)
                           \o <<WR_EXECUTE, execution.executable, WR_COMMAND>>
                           \o execution.arguments,
           environment |-> update_map(execution.environment)]
    /\ lastOp' = "supervise"
    /\ UNCHANGED <<verbose_, execution, resolved, depth, supplied, rootEnv>>
    /\ UNCHANGED <<cfgVars, execVars>>

\* the resolved execution runs; the new process image calls exec in turn,
\* passing on the environment it was given
Descend ==
    /\ resolved # NoValue
    /\ depth < MaxDepth
    /\ \E exe \in Executables :
          execution' = [resolved EXCEPT !.executable = exe]
    /\ supplied' = execution'
    /\ resolved' = NoValue
    /\ supervised' = NoValue
    /\ depth' = depth + 1
    /\ lastOp' = "descend"
    /\ UNCHANGED <<verbose_, rootEnv>>
    /\ UNCHANGED <<cfgVars, execVars>>

NextSession ==
    \/ Resolve
    \/ Supervise
    \/ Descend

-----------------------------------------------------------------------------
(* Claims about LibraryPreloadSession *)

\* the value is a path list whose first element is lib
FrontIs(value, lib) ==
    \/ value = lib
    \/ /\ Len(value) > Len(lib)
       /\ SubSeq(value, 1, Len(lib)) = lib
       /\ value[Len(lib) + 1] = OS_PATH_SEPARATOR

Injected(env) ==
    /\ ReservedKeys \ {KEY_VERBOSE} \subseteq DOMAIN env
    /\ env[KEY_DESTINATION] = session_locator_
    /\ env[KEY_REPORTER] = executor_
    /\ FrontIs(env[GLIBC_PRELOAD_KEY], library_)
    /\ verbose_ => (KEY_VERBOSE \in DOMAIN env /\ env[KEY_VERBOSE] = TRUE_STRING)

\* C4: the environment produced by resolve (the protobuf overload of update)
\* and by supervise (the std::map overload) maps the session-locator key to
\* the session's locator, the reporter key to the executor, the preload key
\* to a path list that starts with the session's library and, in a verbose
\* session, the verbose key to "true", whatever the caller's environment held.
C4_ReservedKeysInjected ==
    /\ resolved # NoValue => Injected(resolved.environment)
    /\ supervised # NoValue => Injected(supervised.environment)

\* C4 witness: a verbose session has resolved and supervised an execution
\* whose environment defined the reserved keys with other values
C4_Witness ==
    /\ verbose_
    /\ resolved # NoValue
    /\ supervised # NoValue
    /\ ReservedKeys \subseteq DOMAIN supplied.environment
    /\ supplied.environment[GLIBC_PRELOAD_KEY] = <<"a", OS_PATH_SEPARATOR, "l">>
    /\ supplied.environment[KEY_REPORTER] = <<"o">>
    /\ supplied.environment[KEY_DESTINATION] = <<"o">>
    /\ supplied.environment[KEY_VERBOSE] = <<"f">>

\* the keys of env outside the reserved ones, and what they hold, are before's
SameElsewhere(before, after) ==
    /\ (DOMAIN after) \ ReservedKeys = (DOMAIN before) \ ReservedKeys
    /\ \A k \in (DOMAIN before) \ ReservedKeys : after[k] = before[k]
    /\ ~verbose_ =>
          /\ (KEY_VERBOSE \in DOMAIN after) = (KEY_VERBOSE \in DOMAIN before)
          /\ KEY_VERBOSE \in DOMAIN before =>
                after[KEY_VERBOSE] = before[KEY_VERBOSE]

\* C7: update and resolve change nothing but the reserved keys; a session
\* that is not verbose leaves the verbose key as supplied; resolve keeps the
\* executable, the arguments and the working directory; the caller's own
\* execution is never modified.
C7_FrameOfUpdate ==
    /\ execution = supplied
    /\ resolved # NoValue =>
          /\ SameElsewhere(supplied.environment, resolved.environment)
          /\ resolved.executable = supplied.executable
          /\ resolved.arguments = supplied.arguments
          /\ resolved.working_dir = supplied.working_dir
    /\ supervised # NoValue =>
          SameElsewhere(supplied.environment, supervised.environment)

\* C7 witness: a session that is not verbose has resolved and supervised an
\* execution whose environment holds a verbose key and an unreserved key
C7_Witness ==
    /\ ~verbose_
    /\ resolved # NoValue
    /\ supervised # NoValue
    /\ OTHER_KEY \in DOMAIN supplied.environment
    /\ KEY_VERBOSE \in DOMAIN supplied.environment
    /\ supplied.environment[KEY_VERBOSE] = <<"f">>
    /\ resolved.environment # supplied.environment

Occurrences(l, x) == Cardinality({i \in 1..Len(l) : l[i] = x})

\* C10: rewriting an environment that was already rewritten changes nothing,
\* and at every depth of the process tree the preload key holds the library
\* once, at the front, followed by the top-level caller's other entries in
\* their order.
C10_UpdateIdempotent ==
    /\ (depth >= 1 /\ resolved # NoValue) =>
          resolved.environment = execution.environment
    /\ (depth >= 1 /\ supervised # NoValue) =>
          supervised.environment = execution.environment
    /\ resolved # NoValue =>
          LET list == split(resolved.environment[GLIBC_PRELOAD_KEY])
          IN  /\ Occurrences(list, library_) = 1
              /\ list[1] = library_
              /\ Tail(list) =
                    Without(split(Lookup(rootEnv, GLIBC_PRELOAD_KEY)), library_)

\* C10 witness: two levels down, an execution is resolved and supervised
\* again, the top-level preload list having held the library behind another
\* entry
C10_Witness ==
    /\ depth >= 2
    /\ resolved # NoValue
    /\ supervised # NoValue
    /\ Lookup(rootEnv, GLIBC_PRELOAD_KEY) = <<"a", OS_PATH_SEPARATOR, "l">>
    /\ resolved.environment[GLIBC_PRELOAD_KEY] = <<"l", OS_PATH_SEPARATOR, "a">>

-----------------------------------------------------------------------------
(* citnames: paths (std::filesystem::path on POSIX) *)

SLASH == "/"

\* fs::path::is_absolute: the path has a root directory
is_absolute(path) == Len(path) > 0 /\ path[1] = SLASH

\* fs::path operator/ for a relative right-hand side: a separator is put
\* between the two unless the left-hand side is empty or ends with one
PathAppend(root, path) ==
    IF root = <<>> THEN path
    ELSE IF root[Len(root)] = SLASH THEN root \o path
    ELSE root \o <<SLASH>> \o path

\* the generic form two paths are compared in: runs of separators are one
RECURSIVE Generic(_)
Generic(path) ==
    IF Len(path) < 2 THEN path
    ELSE IF path[1] = SLASH /\ path[2] = SLASH THEN Generic(Tail(path))
    ELSE <<path[1]>> \o Generic(Tail(path))

\* fs::path operator==: element by element
PathEq(p, q) == Generic(p) = Generic(q)

-----------------------------------------------------------------------------
(* citnames: into_configuration and its helpers *)

\* to_abspath: absolute paths as they are, relative ones under root
to_abspath(paths, root) ==
    [i \in 1..Len(paths) |->
        IF is_absolute(paths[i]) THEN paths[i] ELSE PathAppend(root, paths[i])]

CwdError == <<"#error">>

\* update_content: with run_checks and a known working directory the filter
\* is rebuilt; otherwise (also when get_cwd fails) it is returned as it was
update_content(content, run_checks, cwdResult) ==
    IF run_checks /\ cwdResult # CwdError
    THEN [include_only_existing_source |-> run_checks,
          paths_to_include |-> to_abspath(content.paths_to_include, cwdResult),
          paths_to_exclude |-> to_abspath(content.paths_to_exclude, cwdResult)]
    ELSE content

CompilerWrapper(exe) ==
    [executable |-> exe, flags_to_add |-> <<>>, flags_to_remove |-> <<>>]

\* a plausible slip: the check for an entry already present is left out
RECURSIVE update_compilers_no_check(_, _)
update_compilers_no_check(wrappers, compilerList) ==
    IF compilerList = <<>> THEN wrappers
    ELSE update_compilers_no_check(
             Append(wrappers, CompilerWrapper(Head(compilerList))),
             Tail(compilerList))

\* update_compilers_to_recognize: each compiler not yet among the wrappers'
\* executables is appended with empty flag lists
RECURSIVE update_compilers_to_recognize(_, _)
update_compilers_to_recognize(wrappers, compilerList) ==
    IF compilerList = <<>> THEN wrappers
    ELSE LET compiler == Head(compilerList)
             already_in_wrappers ==
                 \E i \in 1..Len(wrappers) :
                     PathEq(wrappers[i].executable, compiler)
         IN  update_compilers_to_recognize(
                 IF already_in_wrappers THEN wrappers
                 ELSE Append(wrappers, CompilerWrapper(compiler)),
                 Tail(compilerList))

\* compilers: the values of CC, CXX and FC, in this order, when present
compilers(env) ==
    (IF env.CC # Absent THEN <<env.CC>> ELSE <<>>)
    \o (IF env.CXX # Absent THEN <<env.CXX>> ELSE <<>>)
    \o (IF env.FC # Absent THEN <<env.FC>> ELSE <<>>)

LoadError == [error |-> "configuration"]

\* Result<bool>::unwrap_or
UnwrapOr(answer, default) == IF answer = "err" THEN default ELSE answer = "true"

\* into_configuration: the loaded configuration (or the default one), its
\* content filter updated for run-checks, its compilers extended from the
\* environment; a configuration file that does not load is an error
into_configuration(args, env, config, cwdResult) ==
    IF config = LoadError THEN LoadError
    ELSE LET run_checks ==
                 UnwrapOr(args.run_checks,
                          config.output.content.include_only_existing_source)
             c1 == [config EXCEPT !.output.content =
                        update_content(@, run_checks, cwdResult)]
         IN  [c1 EXCEPT !.compilation.compilers_to_recognize =
                  update_compilers_to_recognize(@, compilers(env))]

\* ---- the inputs ----

RelPath == <<"a">>
AbsPath == <<SLASH, "a">>
CfgPaths == {RelPath, AbsPath}
Roots == {<<SLASH>>, <<SLASH, "p">>}

Contents ==
    [include_only_existing_source : BOOLEAN,
     paths_to_include : SeqsUpTo(CfgPaths, MaxPaths),
     paths_to_exclude : SeqsUpTo(CfgPaths, MaxPaths)]

\* executables the configuration file names, and values CC, CXX, FC hold:
\* <<"/", "/", "c">> and <<"/", "c">> are different strings and equal paths
ConfigExecutables == {<<SLASH, SLASH, "c">>, <<"g">>}
EnvCompilers == {<<SLASH, "c">>, <<"g">>}

ConfigWrappers ==
    {[executable |-> e, flags_to_add |-> <<"-add">>,
      flags_to_remove |-> <<"-rm">>] : e \in ConfigExecutables}

Configurations ==
    {[output |-> [content |-> c],
      compilation |-> [compilers_to_recognize |-> w]] :
        c \in Contents, w \in SeqsUpTo(ConfigWrappers, MaxWrappers)}

\* what as_bool answers for a flag: Ok(true) when the flag was given
BoolResults == {"true", "false", "err"}

InitConfig ==
    /\ flags \in [run_checks : BoolResults]
    /\ environment \in [CC : EnvCompilers \cup {Absent},
                        CXX : EnvCompilers \cup {Absent},
                        FC : {<<"g">>, Absent}]
    /\ loaded \in Configurations \cup {LoadError}
    /\ cwd \in Roots \cup {CwdError}
    /\ configuration = NoValue
    \* the other parts of the model are idle
    /\ verbose_ = FALSE
    /\ execution = NoValue
    /\ resolved = NoValue
    /\ supervised = NoValue
    /\ depth = 0
    /\ supplied = NoValue
    /\ rootEnv = NoValue
    /\ lastOp = "idle"
    /\ cmdline = NoValue
    /\ inputExists = FALSE
    /\ eventLog = NoValue
    /\ outFile = NoValue
    /\ content_ = NoValue
    /\ arguments_ = NoValue
    /\ pc = "idle"
    /\ it = 1
    /\ entries = <<>>
    /\ count = 0
    /\ result = NoValue
    /\ priorRead = "no"
    /\ toJsonCalls = 0
    /\ origFile = NoValue

\* Application::command, the configuration half
IntoConfiguration ==
    /\ configuration = NoValue
    /\ configuration' = into_configuration(flags, environment, loaded, cwd)
    /\ UNCHANGED <<flags, environment, loaded, cwd>>
    /\ UNCHANGED <<sessVars, execVars>>

-----------------------------------------------------------------------------
(* Claims about into_configuration *)

Succeeded == configuration # NoValue /\ configuration # LoadError

FromFile == loaded.compilation.compilers_to_recognize
Recognize == configuration.compilation.compilers_to_recognize

\* the values of CC, CXX, FC in this order, Absent where there is none
EnvValues == <<environment.CC, environment.CXX, environment.FC>>

\* the k-th of CC, CXX, FC names a compiler nothing before it named
IsNewCompiler(k) ==
    /\ EnvValues[k] # Absent
    /\ \A i \in 1..Len(FromFile) : ~PathEq(FromFile[i].executable, EnvValues[k])
    /\ \A j \in 1..(k - 1) : ~PathEq(EnvValues[j], EnvValues[k])

NewCompilers ==
    LET pick(k) == IF IsNewCompiler(k) THEN <<EnvValues[k]>> ELSE <<>>
    IN  pick(1) \o pick(2) \o pick(3)

\* C5: after into_configuration every present one of CC, CXX, FC is the
\* executable of an entry of compilers_to_recognize; the entries of the
\* configuration file are kept where they were, flags included; no value
\* already present as an executable is added again; the added entries have
\* empty flag lists and come in the order CC, CXX, FC.
C5_CompilersFromEnvironment ==
    Succeeded =>
        /\ \A k \in 1..3 :
              EnvValues[k] # Absent =>
                  \E i \in 1..Len(Recognize) :
                      PathEq(Recognize[i].executable, EnvValues[k])
        /\ Len(Recognize) >= Len(FromFile)
        /\ SubSeq(Recognize, 1, Len(FromFile)) = FromFile
        /\ \A i \in (Len(FromFile) + 1)..Len(Recognize) :
              /\ Recognize[i].flags_to_add = <<>>
              /\ Recognize[i].flags_to_remove = <<>>
              /\ \A j \in 1..(i - 1) :
                    ~PathEq(Recognize[j].executable, Recognize[i].executable)
        /\ [i \in 1..(Len(Recognize) - Len(FromFile)) |->
                Recognize[Len(FromFile) + i].executable] = NewCompilers

\* C5 witness: CC names, in another spelling, a compiler of the configuration
\* file, CXX and FC both name a new one, and one entry was added
C5_Witness ==
    /\ Succeeded
    /\ Len(FromFile) = 1
    /\ FromFile[1].executable = <<SLASH, SLASH, "c">>
    /\ environment.CC = <<SLASH, "c">>
    /\ environment.CXX = <<"g">>
    /\ environment.FC = <<"g">>
    /\ Len(Recognize) = 2

FilterBefore == loaded.output.content
FilterAfter == configuration.output.content

AllAbsolute(paths) == \A i \in 1..Len(paths) : is_absolute(paths[i])

\* C9: whenever --run-checks is given, the content filter in effect has
\* include_only_existing_source set and only absolute paths to include and to
\* exclude, as many as the configuration file had, whatever that file says.
C9_RunChecksOverrides ==
    (Succeeded /\ flags.run_checks = "true") =>
        /\ FilterAfter.include_only_existing_source = TRUE
        /\ AllAbsolute(FilterAfter.paths_to_include)
        /\ AllAbsolute(FilterAfter.paths_to_exclude)
        /\ Len(FilterAfter.paths_to_include) = Len(FilterBefore.paths_to_include)
        /\ Len(FilterAfter.paths_to_exclude) = Len(FilterBefore.paths_to_exclude)

\* what C9 says of the content filter, for a working directory that is known
C9_HoldsWhenCwdKnown ==
    (Succeeded /\ flags.run_checks = "true" /\ cwd # CwdError) =>
        /\ FilterAfter.include_only_existing_source = TRUE
        /\ AllAbsolute(FilterAfter.paths_to_include)
        /\ AllAbsolute(FilterAfter.paths_to_exclude)
        /\ FilterAfter.paths_to_include =
              [i \in 1..Len(FilterBefore.paths_to_include) |->
                  LET path == FilterBefore.paths_to_include[i]
                  IN  IF path[1] = SLASH THEN path
                      ELSE PathAppend(cwd, path)]

-----------------------------------------------------------------------------
(* citnames: entries and the compilation database (Output.h) *)

Entry(dir, file, args, out) ==
    [directory |-> dir, file |-> file, arguments |-> args, output |-> out]

FileA == <<SLASH, "a">>
FileB == <<SLASH, "b">>
EntryA1 == Entry(<<SLASH, "p">>, FileA, <<"cc", "-c">>, "a.o")
\* the same natural key as EntryA1, another output
EntryA2 == Entry(<<SLASH, "p">>, FileA, <<"cc", "-c">>, "b.o")
EntryB  == Entry(<<SLASH, "p">>, FileB, <<"cc", "-c">>, "b.o")
Entries == {EntryA1, EntryA2, EntryB}

\* the source files that exist on the host
ExistingFiles == {FileA}

\* the natural key of an entry
KeyOf(e) == <<e.directory, e.file, e.arguments>>

CharRank(c) ==
    CASE c = SLASH -> 0 [] c = "a" -> 1 [] c = "b" -> 2 [] c = "p" -> 3
      [] OTHER -> 4

\* lexicographic order of strings
RECURSIVE StrLess(_, _)
StrLess(x, y) ==
    IF y = <<>> THEN FALSE
    ELSE IF x = <<>> THEN TRUE
    ELSE IF CharRank(x[1]) # CharRank(y[1]) THEN CharRank(x[1]) < CharRank(y[1])
    ELSE StrLess(Tail(x), Tail(y))

\* the order the database is written in: by file, then by directory
EntryLess(e, f) ==
    \/ StrLess(e.file, f.file)
    \/ e.file = f.file /\ StrLess(e.directory, f.directory)

IsPrefix(pre, path) ==
    Len(pre) <= Len(path) /\ SubSeq(path, 1, Len(pre)) = pre

\* the content filter: an entry is dropped when only existing sources are
\* wanted and its file does not exist, when a path to exclude is a prefix of
\* its file, or when there are paths to include and none is a prefix of it
ContentFilterApply(content, e) ==
    /\ content.include_only_existing_source => e.file \in ExistingFiles
    /\ \A i \in 1..Len(content.paths_to_exclude) :
          ~IsPrefix(content.paths_to_exclude[i], e.file)
    /\ \/ content.paths_to_include = <<>>
       \/ \E i \in 1..Len(content.paths_to_include) :
             IsPrefix(content.paths_to_include[i], e.file)

\* union by the natural key: of entries with one key the first is kept
RECURSIVE UniqueByKey(_, _)
UniqueByKey(list, seen) ==
    IF list = <<>> THEN <<>>
    ELSE IF KeyOf(Head(list)) \in seen THEN UniqueByKey(Tail(list), seen)
    ELSE <<Head(list)>>
         \o UniqueByKey(Tail(list), seen \cup {KeyOf(Head(list))})

\* e put behind the entries of a sorted list that are not greater than it
RECURSIVE InsertSorted(_, _)
InsertSorted(sorted, e) ==
    IF sorted = <<>> THEN <<e>>
    ELSE IF EntryLess(e, Head(sorted)) THEN <<e>> \o sorted
    ELSE <<Head(sorted)>> \o InsertSorted(Tail(sorted), e)

RECURSIVE SortEntries(_)
SortEntries(list) ==
    IF list = <<>> THEN <<>>
    ELSE InsertSorted(SortEntries(SubSeq(list, 1, Len(list) - 1)),
                      list[Len(list)])

\* CompilationDatabase::to_json: what is written for a list of entries: the
\* entries the content filter lets pass, one per natural key, sorted
DatabaseOf(content, list) ==
    SortEntries(UniqueByKey(SelectSeq(list,
                    LAMBDA e : ContentFilterApply(content, e)), {}))

\* CompilationDatabase::from_json: the prior entries are put behind the
\* entries already in the list
WithPrior(list, prior) == list \o prior

-----------------------------------------------------------------------------
(* citnames: into_arguments, transform and Command::execute *)

ArgError == [error |-> "Missing input file"]
EXIT_SUCCESS == 0

\* what a path of the file system holds
NoFile == [state |-> "absent"]
Corrupt == [state |-> "corrupt"]
Database(list) == [state |-> "database", entries |-> list]

\* rust::Ok
Ok(value) == [ok |-> value]

Err(what) == [error |-> what]
IsErr(r) == r # NoValue /\ r # Ok(EXIT_SUCCESS)

\* is_exists
is_exists(file) == file # NoFile

\* a plausible slip: --append is taken as given, whether the output exists
\* or not
into_arguments_keep_append(args, inputThere, output) ==
    IF ~inputThere THEN ArgError
    ELSE [append |-> UnwrapOr(args.append, FALSE)]

\* into_arguments: a missing input file is an error; append is kept only
\* when the output file exists
into_arguments(args, inputThere, output) ==
    IF ~inputThere THEN ArgError
    ELSE [append |-> (UnwrapOr(args.append, FALSE) /\ is_exists(output))]

\* Application::command, the arguments half; without arguments there is no
\* command to execute
IntoArguments ==
    /\ pc = "command"
    /\ arguments_' = into_arguments(cmdline, inputExists, outFile)
    /\ pc' = IF arguments_' = ArgError THEN "no_command" ELSE "execute"
    /\ UNCHANGED <<cmdline, inputExists, eventLog, outFile, content_, it,
                   entries, count, result, priorRead, toJsonCalls, origFile>>
    /\ UNCHANGED <<sessVars, cfgVars>>

\* Command::execute, EventsDatabaseReader::from: an event log that does not
\* open ends the run with an error
ExecuteOpen ==
    /\ pc = "execute"
    /\ IF eventLog.opens
       THEN /\ pc' = "transform"
            /\ result' = result
       ELSE /\ pc' = "done"
            /\ result' = Err("open")
    /\ it' = 1
    /\ entries' = <<>>
    /\ count' = 0
    /\ UNCHANGED <<cmdline, inputExists, eventLog, outFile, content_,
                   arguments_, priorRead, toJsonCalls, origFile>>
    /\ UNCHANGED <<sessVars, cfgVars>>

\* what one record adds to the output: the entries of a compiler call that
\* was read and recognized, nothing otherwise
Recognized(record) ==
    IF record.kind = "compile" THEN record.entries ELSE <<>>

\* a plausible slip: the loop is left at the first record that is an error
TransformStepAbortOnError ==
    /\ pc = "transform"
    /\ it <= Len(eventLog.records)
    /\ LET record == eventLog.records[it]
           failed == record.kind \in {"read_error", "recognize_error"}
       IN  /\ entries' = entries \o Recognized(record)
           /\ count' = count + Len(Recognized(record))
           /\ it' = IF failed THEN Len(eventLog.records) + 1 ELSE it + 1
    /\ UNCHANGED <<cmdline, inputExists, eventLog, outFile, content_,
                   arguments_, pc, result, priorRead, toJsonCalls, origFile>>
    /\ UNCHANGED <<sessVars, cfgVars>>

\* transform, one turn of the loop: the record is read and recognized; on
\* success, and if it is a compiler call, its entries are appended
TransformStep ==
    /\ pc = "transform"
    /\ it <= Len(eventLog.records)
    /\ LET record == eventLog.records[it]
       IN  /\ entries' = entries \o Recognized(record)
           /\ count' = count + Len(Recognized(record))
    /\ it' = it + 1
    /\ UNCHANGED <<cmdline, inputExists, eventLog, outFile, content_,
                   arguments_, pc, result, priorRead, toJsonCalls, origFile>>
    /\ UNCHANGED <<sessVars, cfgVars>>

\* a plausible slip: a prior database that cannot be read counts as empty
ExecuteMergeIgnoreError ==
    /\ pc = "transform"
    /\ it > Len(eventLog.records)
    /\ IF arguments_.append
       THEN IF outFile.state = "database"
            THEN /\ entries' = WithPrior(entries, outFile.entries)
                 /\ priorRead' = "ok"
            ELSE /\ entries' = entries
                 /\ priorRead' = "failed"
       ELSE /\ entries' = entries
            /\ priorRead' = priorRead
    /\ pc' = "write"
    /\ UNCHANGED <<cmdline, inputExists, eventLog, outFile, content_,
                   arguments_, it, count, result, toJsonCalls, origFile>>
    /\ UNCHANGED <<sessVars, cfgVars>>

\* a plausible slip: the prior database is never read
ExecuteMergeNeverReads ==
    /\ pc = "transform"
    /\ it > Len(eventLog.records)
    /\ pc' = "write"
    /\ UNCHANGED <<cmdline, inputExists, eventLog, outFile, content_,
                   arguments_, it, entries, count, result, priorRead,
                   toJsonCalls, origFile>>
    /\ UNCHANGED <<sessVars, cfgVars>>

\* Command::execute, after transform: in append mode the prior database is
\* read behind the new entries; if it cannot be read the run ends with an
\* error
ExecuteMerge ==
    /\ pc = "transform"
    /\ it > Len(eventLog.records)
    /\ IF arguments_.append
       THEN IF outFile.state = "database"
            THEN /\ entries' = WithPrior(entries, outFile.entries)
                 /\ priorRead' = "ok"
                 /\ pc' = "write"
                 /\ result' = result
            ELSE /\ entries' = entries
                 /\ priorRead' = "failed"
                 /\ pc' = "done"
                 /\ result' = Err("read")
       ELSE /\ entries' = entries
            /\ priorRead' = priorRead
            /\ pc' = "write"
            /\ result' = result
    /\ UNCHANGED <<cmdline, inputExists, eventLog, outFile, content_,
                   arguments_, it, count, toJsonCalls, origFile>>
    /\ UNCHANGED <<sessVars, cfgVars>>

\* Command::execute, the end: the entries are written; the exit code is
\* EXIT_SUCCESS when the write succeeded
ExecuteWrite ==
    /\ pc = "write"
    /\ toJsonCalls' = toJsonCalls + 1
    /\ \E written \in BOOLEAN :
          IF written
          THEN /\ outFile' = Database(DatabaseOf(content_, entries))
               /\ result' = Ok(EXIT_SUCCESS)
          ELSE /\ outFile' = outFile
               /\ result' = Err("write")
    /\ pc' = "done"
    /\ UNCHANGED <<cmdline, inputExists, eventLog, content_, arguments_, it,
                   entries, count, priorRead, origFile>>
    /\ UNCHANGED <<sessVars, cfgVars>>

\* ---- the inputs ----

Records ==
    {[kind |-> "read_error"], [kind |-> "recognize_error"], [kind |-> "other"],
     [kind |-> "compile", entries |-> <<EntryA2>>],
     [kind |-> "compile", entries |-> <<EntryB, EntryA1>>]}

ExecContents ==
    {[include_only_existing_source |-> FALSE, paths_to_include |-> <<>>,
      paths_to_exclude |-> <<>>],
     [include_only_existing_source |-> TRUE, paths_to_include |-> <<>>,
      paths_to_exclude |-> <<>>],
     [include_only_existing_source |-> FALSE, paths_to_include |-> <<FileB>>,
      paths_to_exclude |-> <<>>],
     [include_only_existing_source |-> FALSE, paths_to_include |-> <<>>,
      paths_to_exclude |-> <<FileB>>]}

InitExec ==
    /\ cmdline \in [append : BoolResults]
    /\ inputExists \in BOOLEAN
    /\ \/ /\ inputExists
          /\ eventLog \in [opens : {TRUE},
                           records : SeqsUpTo(Records, MaxEvents)]
       \/ eventLog = [opens |-> FALSE, records |-> <<>>]
    /\ outFile \in {Database(db) : db \in SeqsUpTo(Entries, MaxPrior)}
                    \cup {NoFile, Corrupt}
    /\ content_ \in ExecContents
    /\ arguments_ = NoValue
    /\ pc = "command"
    /\ it = 1
    /\ entries = <<>>
    /\ count = 0
    /\ result = NoValue
    /\ priorRead = "no"
    /\ toJsonCalls = 0
    /\ origFile = outFile
    \* the other parts of the model are idle
    /\ verbose_ = FALSE
    /\ execution = NoValue
    /\ resolved = NoValue
    /\ supervised = NoValue
    /\ depth = 0
    /\ supplied = NoValue
    /\ rootEnv = NoValue
    /\ lastOp = "idle"
    /\ flags = NoValue
    /\ environment = NoValue
    /\ loaded = NoValue
    /\ cwd = NoValue
    /\ configuration = NoValue

-----------------------------------------------------------------------------
(* The specifications *)

\* intercept: a LibraryPreloadSession serving a process tree
SpecSession ==
    /\ InitSession
    /\ [][NextSession]_vars

NextConfig == IntoConfiguration

\* citnames: Application::command building the configuration
SpecConfig ==
    /\ InitConfig
    /\ [][NextConfig]_vars

NextExec ==
    \/ IntoArguments
    \/ ExecuteOpen
    \/ TransformStep
    \/ ExecuteMerge
    \/ ExecuteWrite

\* citnames: Application::command building the arguments, then
\* Command::execute
SpecExec ==
    /\ InitExec
    /\ [][NextExec]_vars

-----------------------------------------------------------------------------
(* Claims about transform and Command::execute *)

IsError(record) == record.kind \in {"read_error", "recognize_error"}

\* the entries of the compiler calls among the records, in their order
RECURSIVE FlatEntries(_)
FlatEntries(records) ==
    IF records = <<>> THEN <<>>
    ELSE (IF Head(records).kind = "compile" THEN Head(records).entries
          ELSE <<>>) \o FlatEntries(Tail(records))

\* the log without the records that fail to be read or recognized
Healthy(records) == SelectSeq(records, LAMBDA r : ~IsError(r))

PastTransform == eventLog.opens /\ pc \in {"write", "done"}

\* C1: a record that cannot be read or recognized adds nothing, does not
\* stop the loop, and leaves what the other records add as it would be
\* without it: during the loop the output holds the entries of the healthy
\* records visited so far, and the loop ends only past the last record.
C1_ErrorsAreSkipped ==
    /\ pc = "transform" =>
          /\ it <= Len(eventLog.records) + 1
          /\ entries = FlatEntries(Healthy(SubSeq(eventLog.records, 1, it - 1)))
          /\ count = Len(entries)
    /\ PastTransform =>
          /\ it = Len(eventLog.records) + 1
          /\ count = Len(FlatEntries(Healthy(eventLog.records)))
          /\ SubSeq(entries, 1, count) = FlatEntries(Healthy(eventLog.records))
          /\ IsErr(result) => result \in {Err("read"), Err("write")}

\* C1 witness: a log whose first record fails to be recognized and whose
\* second is a compiler call was transformed and the database written
C1_Witness ==
    /\ pc = "done"
    /\ result = Ok(EXIT_SUCCESS)
    /\ Len(eventLog.records) = 2
    /\ eventLog.records[1].kind = "recognize_error"
    /\ eventLog.records[2].kind = "compile"
    /\ count = 2

\* C2: the exit code is EXIT_SUCCESS only if the event log opened and every
\* record of it was read.
C2_ExitZeroOnlyOnSuccess ==
    (pc = "done" /\ result = Ok(EXIT_SUCCESS)) =>
        /\ eventLog.opens
        /\ \A i \in 1..Len(eventLog.records) :
              eventLog.records[i].kind # "read_error"

\* C3: to_json is invoked at most once, and only after the whole log was
\* transformed and, in append mode, the prior database was read; when the
\* log does not open or the prior database cannot be read, to_json is not
\* invoked, the output file stays as it was and the run ends with an error.
C3_WriteOnceAfterAll ==
    /\ toJsonCalls <= 1
    /\ (toJsonCalls = 1 \/ pc = "write") =>
          /\ eventLog.opens
          /\ it = Len(eventLog.records) + 1
          /\ arguments_.append => priorRead = "ok"
    /\ toJsonCalls = 0 => outFile = origFile
    /\ (pc = "done" /\ (~eventLog.opens \/ priorRead = "failed")) =>
          /\ toJsonCalls = 0
          /\ outFile = origFile
          /\ IsErr(result)

\* C3 witness: a run in append mode ended at a prior database it could not
\* read, after a log with records
C3_Witness ==
    /\ pc = "done"
    /\ priorRead = "failed"
    /\ arguments_.append
    /\ Len(eventLog.records) = 2
    /\ count > 0

AppendedNothing ==
    /\ pc = "done"
    /\ result = Ok(EXIT_SUCCESS)
    /\ arguments_.append
    /\ eventLog.records = <<>>
    /\ origFile.state = "database"

IsSorted(list) ==
    \A i, j \in 1..Len(list) : i < j => ~EntryLess(list[j], list[i])

KeysDiffer(list) ==
    \A i, j \in 1..Len(list) : i # j => KeyOf(list[i]) # KeyOf(list[j])

AppendGiven == UnwrapOr(cmdline.append, FALSE)

\* C8: the prior database is read only if --append was given and the output
\* file existed when the arguments were validated, and a run that gets past
\* the event log then does read it; otherwise (also with --append and no
\* output file) nothing is read, its absence is no error, and the entries
\* handed to the writer are the new entries alone.
C8_PriorReadIffAppendAndExists ==
    /\ priorRead # "no" => (AppendGiven /\ origFile # NoFile)
    /\ (PastTransform /\ AppendGiven /\ origFile # NoFile) => priorRead # "no"
    /\ (pc \notin {"command", "no_command"}) =>
          arguments_.append = (AppendGiven /\ origFile # NoFile)
    /\ (PastTransform /\ ~(AppendGiven /\ origFile # NoFile)) =>
          /\ entries = FlatEntries(eventLog.records)
          /\ result # Err("read")

\* C8 witness: a run with --append and no output file wrote the entries of
\* its log
C8_Witness ==
    /\ pc = "done"
    /\ cmdline.append = "true"
    /\ origFile = NoFile
    /\ result = Ok(EXIT_SUCCESS)
    /\ outFile.state = "database"
    /\ outFile.entries # <<>>

=============================================================================
